---- MODULE Spec2Model ----
(***************************************************************************)
(* A model of the GitHub REST client of mcp-github (class GitHubClient)    *)
(* and of the calls a host makes through it.                               *)
(*                                                                         *)
(* Time is the millisecond clock Date.now() reads.  One event-loop job     *)
(* (the synchronous part of a call, a timer callback, the arrival of a     *)
(* response) is one action; the continuation after `await                  *)
(* this.rateLimitDelay()` is a microtask, which runs before the event loop *)
(* takes a timer or a response and before the clock is read again.         *)
(*                                                                         *)
(* A nullable value is a sequence of length 0 (null / undefined) or 1.     *)
(* A text that the code inspects character by character (a header value)   *)
(* is a sequence of one-character strings.                                 *)
(***************************************************************************)
EXTENDS Integers, Sequences, FiniteSets, TLC

VARIABLES
    env,              \* process.env.GITHUB_TOKEN
    client,           \* the constructed GitHubClient: token, baseURL, rateLimit
    lastRequestTime,  \* GitHubClient.lastRequestTime
    rateLimitInfo,    \* GitHubClient.rateLimitInfo
    clock,            \* Date.now()
    pc,               \* position of each call inside request()
    due,              \* expiry of the setTimeout a sleeping call waits for
    req,              \* the request a call is making (method, path, body)
    resp,             \* the Response a call has received
    outcome,          \* what a finished call returned or threw
    constructs,       \* history: constructor invocations so far
    config,           \* history: the argument of the last constructor invocation
    threw,            \* history: the last constructor invocation threw
    started,          \* history: calls made so far
    stamps,           \* history: writes to lastRequestTime so far
    hist,             \* history: per call, when it read lastRequestTime, the write it
                      \* read and the write it made
    before,           \* history: per call, the quota snapshot when its response arrived
    log,              \* history: the dispatches (fetch calls), in order
    hasFailed,        \* history: a call on the client has thrown
    result            \* what the tool handler of a call returned to the server

vars == <<env, client, lastRequestTime, rateLimitInfo, clock, pc, due, req, resp, outcome,
          constructs, config, threw, started, stamps, hist, before, log, hasFailed, result>>

(***************************************************************************)
(* Bounds of the model.                                                    *)
(***************************************************************************)
MaxCalls == 3
MaxConstructs == 2
MaxElapsed == 5
StartClock == 100000

\* The calls that can be in progress at once: a call in progress and one that
\* overlaps it.
Calls == {1, 2}

(***************************************************************************)
(* Program constants.                                                      *)
(***************************************************************************)
MsPerSecond == 1000
DefaultRateLimit == 10
DefaultBaseURL == "https://api.github.com"

None == <<>>
Some(x) == <<x>>
IsSome(o) == o # <<>>
Get(o) == o[1]

\* JavaScript truthiness of a string | undefined and of a number | undefined.
TruthyString(o) == IsSome(o) /\ Get(o) # ""
TruthyNumber(o) == IsSome(o) /\ Get(o) # 0

Max(a, b) == IF a >= b THEN a ELSE b
CeilDiv(n, d) == (n + d - 1) \div d

(***************************************************************************)
(* constructor(config)                                                     *)
(***************************************************************************)
\* config?.token || process.env.GITHUB_TOKEN
ResolveToken(cfg, e) == IF TruthyString(cfg.token) THEN cfg.token ELSE e

\* config?.baseURL || "https://api.github.com"
ResolveBaseURL(cfg) == IF TruthyString(cfg.baseURL) THEN Get(cfg.baseURL) ELSE DefaultBaseURL

\* config?.rateLimit || 10
ResolveRateLimit(cfg) == IF TruthyNumber(cfg.rateLimit) THEN Get(cfg.rateLimit) ELSE DefaultRateLimit

\* Only a missing token is refused, not an empty one.
ConstructorThrowsIfUndefined(cfg, e) == ~IsSome(ResolveToken(cfg, e))

\* if (!token) throw
ConstructorThrows(cfg, e) == ~TruthyString(ResolveToken(cfg, e))

NewClient(cfg, e) ==
    [token |-> Get(ResolveToken(cfg, e)),
     baseURL |-> ResolveBaseURL(cfg),
     rateLimit |-> ResolveRateLimit(cfg)]

(***************************************************************************)
(* rateLimitDelay()                                                        *)
(***************************************************************************)
\* The comparison the wrong way round: timeSinceLastRequest > minDelay.
NeedsDelayInverted(now, last, rate) == rate > 0 /\ (now - last) * rate > MsPerSecond

\* timeSinceLastRequest < minDelay, with minDelay = 1000 / rateLimit a real number
\* (a rate of 0 makes it Infinity).
NeedsDelay(now, last, rate) ==
    IF rate > 0 THEN (now - last) * rate < MsPerSecond
    ELSE IF rate < 0 THEN (now - last) * rate > MsPerSecond
    ELSE TRUE

\* The delay rounded down to whole milliseconds.
TimerDueFloor(now, last, rate) ==
    IF rate > 0 THEN now + Max(1, (MsPerSecond - (now - last) * rate) \div rate) ELSE now + 1

\* setTimeout(resolve, minDelay - timeSinceLastRequest): the callback runs once the
\* clock has advanced by at least the delay, and never by less than 1 ms.
TimerDue(now, last, rate) ==
    IF rate > 0 THEN now + Max(1, CeilDiv(MsPerSecond - (now - last) * rate, rate))
    ELSE IF rate < 0 THEN now + Max(1, CeilDiv((now - last) * rate - MsPerSecond, 0 - rate))
    ELSE now + 1

(***************************************************************************)
(* JavaScript values that reach the client: numbers and strings.           *)
(***************************************************************************)
Num(n) == [t |-> "number", n |-> n, s |-> ""]
Str(s) == [t |-> "string", n |-> 0, s |-> s]

\* if (v): 0 and "" are falsy, like undefined
Truthy(o) == IsSome(o) /\ (IF Get(o).t = "number" THEN Get(o).n # 0 ELSE Get(o).s # "")

\* The application/x-www-form-urlencoded serialisation of URLSearchParams.toString(),
\* on the texts the model uses (a space becomes "+", a comma "%2C").
FormEncode(s) ==
    CASE s = "bug,help wanted" -> "bug%2Chelp+wanted"
      [] s = "react stars:>1" -> "react+stars%3A%3E1"
      [] OTHER -> s

\* params.page.toString() for a number, the string itself otherwise
ToText(v) == IF v.t = "number" THEN ToString(v.n) ELSE v.s

(***************************************************************************)
(* The resource operations: each maps its parameters to a method, a path   *)
(* and a body and calls request().                                         *)
(***************************************************************************)
Owner == "octocat"
Repo == "hello"
FilePath == "README.md"
Query == "react stars:>1"
IssueNumber == "7"

ListOps == {"listUserRepos", "listIssues", "listPullRequests", "listBranches",
            "getFileContent", "listCommits"}
SearchOps == {"searchRepositories", "searchCode"}
GetOps == {"getRepo", "getIssue", "getPullRequest"}
PostOps == {"createRepo", "createIssue", "createPullRequest"}
PatchOps == {"updateIssue"}
Ops == ListOps \cup SearchOps \cup GetOps \cup PostOps \cup PatchOps

\* The optional parameters an operation puts in the query string, in the order
\* of its queryParams.set calls.
QueryKeys(op) ==
    CASE op = "listUserRepos" -> <<"page", "per_page", "type", "sort">>
      [] op = "listIssues" -> <<"page", "per_page", "state", "labels">>
      [] op = "listPullRequests" -> <<"page", "per_page", "state", "head", "base">>
      [] op = "listBranches" -> <<"page", "per_page">>
      [] op = "getFileContent" -> <<"ref">>
      [] op = "searchRepositories" -> <<"page", "per_page", "sort", "order">>
      [] op = "searchCode" -> <<"page", "per_page", "sort", "order">>
      [] op = "listCommits" -> <<"page", "per_page", "sha", "path", "author">>
      [] OTHER -> <<>>

\* The path before the query string.
BasePath(op) ==
    CASE op = "listUserRepos" -> "/user/repos"
      [] op = "getRepo" -> "/repos/" \o Owner \o "/" \o Repo
      [] op = "createRepo" -> "/user/repos"
      [] op = "listIssues" -> "/repos/" \o Owner \o "/" \o Repo \o "/issues"
      [] op = "getIssue" -> "/repos/" \o Owner \o "/" \o Repo \o "/issues/" \o IssueNumber
      [] op = "createIssue" -> "/repos/" \o Owner \o "/" \o Repo \o "/issues"
      [] op = "updateIssue" -> "/repos/" \o Owner \o "/" \o Repo \o "/issues/" \o IssueNumber
      [] op = "listPullRequests" -> "/repos/" \o Owner \o "/" \o Repo \o "/pulls"
      [] op = "getPullRequest" -> "/repos/" \o Owner \o "/" \o Repo \o "/pulls/" \o IssueNumber
      [] op = "createPullRequest" -> "/repos/" \o Owner \o "/" \o Repo \o "/pulls"
      [] op = "listBranches" -> "/repos/" \o Owner \o "/" \o Repo \o "/branches"
      [] op = "getFileContent" -> "/repos/" \o Owner \o "/" \o Repo \o "/contents/" \o FilePath
      [] op = "searchRepositories" -> "/search/repositories"
      [] op = "searchCode" -> "/search/code"
      [] op = "listCommits" -> "/repos/" \o Owner \o "/" \o Repo \o "/commits"

Method(op) ==
    IF op \in PostOps THEN "POST" ELSE IF op \in PatchOps THEN "PATCH" ELSE "GET"

\* if (params?.k) queryParams.set(k, ...): the key is set when its value is truthy
SetsKey(params, k) == Truthy(params[k])

\* new URLSearchParams(...) after the set calls: the pairs, in insertion order
RECURSIVE SetAll(_, _, _)
SetAll(pairs, keys, params) ==
    IF keys = <<>> THEN pairs
    ELSE SetAll(IF SetsKey(params, Head(keys))
                THEN Append(pairs, <<Head(keys), ToText(Get(params[Head(keys)]))>>)
                ELSE pairs,
                Tail(keys), params)

QueryParams(op, params) ==
    SetAll(IF op \in SearchOps THEN << <<"q", Query>> >> ELSE <<>>, QueryKeys(op), params)

\* URLSearchParams.toString()
RECURSIVE Serialize(_)
Serialize(pairs) ==
    IF pairs = <<>> THEN ""
    ELSE LET h == Head(pairs)[1] \o "=" \o FormEncode(Head(pairs)[2])
         IN IF Len(pairs) = 1 THEN h ELSE h \o "&" \o Serialize(Tail(pairs))

\* `${base}${query ? `?${query}` : ""}`, and `${base}?${queryParams.toString()}` for a search
PathOf(op, params) ==
    LET query == Serialize(QueryParams(op, params))
    IN IF op \in SearchOps THEN BasePath(op) \o "?" \o query
       ELSE IF query # "" THEN BasePath(op) \o "?" \o query
       ELSE BasePath(op)

\* The request an operation hands to request(): (method, path, body).
Descriptor(op, params) ==
    [op |-> op, params |-> params, method |-> Method(op),
     path |-> PathOf(op, params), hasBody |-> op \in PostOps \cup PatchOps]


(***************************************************************************)
(* Responses.  A response is [status, limit, remaining, reset, contentType,*)
(* body]: the three quota headers and the content type are nullable, as    *)
(* response.headers.get() returns them.                                    *)
(***************************************************************************)
Digits == <<"0", "1", "2", "3", "4", "5", "6", "7", "8", "9">>
IsDigit(ch) == \E i \in 1..Len(Digits) : Digits[i] = ch
DigitValue(ch) == (CHOOSE i \in 1..Len(Digits) : Digits[i] = ch) - 1

\* A JavaScript number that may be NaN.
NaN == [nan |-> TRUE, val |-> 0]
JsNumber(n) == [nan |-> FALSE, val |-> n]

RECURSIVE SkipWhitespace(_)
SkipWhitespace(t) == IF t # <<>> /\ Head(t) = " " THEN SkipWhitespace(Tail(t)) ELSE t

\* The value of the longest prefix of digits of t, after the digits read so far.
RECURSIVE ReadDigits(_, _, _)
ReadDigits(t, acc, any) ==
    IF t # <<>> /\ IsDigit(Head(t))
    THEN ReadDigits(Tail(t), acc * 10 + DigitValue(Head(t)), TRUE)
    ELSE IF any THEN JsNumber(acc) ELSE NaN

\* parseInt(text, 10): leading whitespace, an optional sign, then digits up to the
\* first character that is not one; NaN when there is no digit.
parseInt(t) ==
    LET u == SkipWhitespace(t)
        signed == u # <<>> /\ Head(u) \in {"+", "-"}
        r == ReadDigits(IF signed THEN Tail(u) ELSE u, 0, FALSE)
    IN IF signed /\ Head(u) = "-" /\ ~r.nan THEN JsNumber(0 - r.val) ELSE r

\* A header value in a condition: null and "" are falsy.
TruthyHeader(h) == IsSome(h) /\ Get(h) # <<>>

\* if (limit && remaining && reset)
HasQuotaHeaders(r) == TruthyHeader(r.limit) /\ TruthyHeader(r.remaining) /\ TruthyHeader(r.reset)

\* { limit: parseInt(limit, 10), remaining: parseInt(remaining, 10), reset: parseInt(reset, 10) }
QuotaOf(r) ==
    [limit |-> parseInt(Get(r.limit)),
     remaining |-> parseInt(Get(r.remaining)),
     reset |-> parseInt(Get(r.reset))]

\* A response without the three headers clears the snapshot.
RecordQuotaOrClear(info, r) == IF HasQuotaHeaders(r) THEN Some(QuotaOf(r)) ELSE None

\* The headers are read only after the status check: a failed response records
\* nothing.
RecordQuotaOnSuccess(info, r) ==
    IF r.status >= 200 /\ r.status <= 299 /\ HasQuotaHeaders(r) THEN Some(QuotaOf(r)) ELSE info

\* this.rateLimitInfo after the headers of r were read
RecordQuota(info, r) == IF HasQuotaHeaders(r) THEN Some(QuotaOf(r)) ELSE info

\* response.ok
Ok(r) == r.status >= 200 /\ r.status <= 299

\* contentType === "application/json"
IsJsonContentTypeExact(ct) == ct = Some("application/json")

\* contentType && contentType.includes("application/json")
IsJsonContentType(ct) ==
    IsSome(ct) /\ Get(ct) \in {"application/json", "application/json; charset=utf-8"}

\* JSON.parse on the body texts of the model: the parsed value, or None for a
\* SyntaxError.  A parsed value is [t, message]: its type and its message property
\* (None when it has none; reading it off null throws a TypeError).
JSONParse(text) ==
    CASE text = "{\"message\":\"Not Found\"}" -> Some([t |-> "object", message |-> Some(Str("Not Found"))])
      [] text = "{\"message\":\"\"}" -> Some([t |-> "object", message |-> Some(Str(""))])
      [] text = "{\"message\":0}" -> Some([t |-> "object", message |-> Some(Num(0))])
      [] text = "{\"message\":7}" -> Some([t |-> "object", message |-> Some(Num(7))])
      [] text = "{\"id\":1}" -> Some([t |-> "object", message |-> None])
      [] text = "[]" -> Some([t |-> "array", message |-> None])
      [] text = "null" -> Some([t |-> "null", message |-> None])
      [] OTHER -> None

\* The body is never parsed.
ErrorMessageRaw(errorText) == errorText

\* try { errorData = JSON.parse(errorText); errorMessage = errorData.message || errorText }
\* catch { errorMessage = errorText }
ErrorMessage(errorText) ==
    LET errorData == JSONParse(errorText)
    IN IF ~IsSome(errorData) THEN errorText
       ELSE IF Get(errorData).t = "null" THEN errorText
       ELSE IF Truthy(Get(errorData).message) THEN ToText(Get(Get(errorData).message))
       ELSE errorText

\* throw new Error(`GitHub API error (${response.status}): ${errorMessage}`)
ApiError(r) ==
    [kind |-> "error", name |-> "Error",
     message |-> "GitHub API error (" \o ToString(r.status) \o "): " \o ErrorMessage(r.body),
     value |-> None, text |-> ""]

\* return await response.json(): the parsed body, or a SyntaxError
JsonResult(r) ==
    IF IsSome(JSONParse(r.body))
    THEN [kind |-> "value", name |-> "json", message |-> "", value |-> JSONParse(r.body), text |-> ""]
    ELSE [kind |-> "error", name |-> "SyntaxError", message |-> "Unexpected token", value |-> None, text |-> ""]

\* return await response.text()
TextResult(r) == [kind |-> "value", name |-> "text", message |-> "", value |-> None, text |-> r.body]

\* fetch() rejected: the rejection propagates out of request()
TransportError == [kind |-> "error", name |-> "TypeError", message |-> "fetch failed", value |-> None, text |-> ""]

\* Where request() goes once the headers of r are read.
AfterHeaders(r) ==
    IF ~Ok(r) THEN "readError"
    ELSE IF IsJsonContentType(r.contentType) THEN "readJson"
    ELSE "readText"

\* What request() returns or throws once the body is read.
Decode(at, r) ==
    IF at = "readError" THEN ApiError(r)
    ELSE IF at = "readJson" THEN JsonResult(r)
    ELSE TextResult(r)

(***************************************************************************)
(* tools.ts: the tool handlers                                             *)
(***************************************************************************)
\* The registered tools and the client operation the handler of each calls.
ToolOp(tool) ==
    CASE tool = "github_list_repos" -> "listUserRepos"
      [] tool = "github_get_repo" -> "getRepo"
      [] tool = "github_create_repo" -> "createRepo"
      [] tool = "github_list_issues" -> "listIssues"
      [] tool = "github_get_issue" -> "getIssue"
      [] tool = "github_create_issue" -> "createIssue"
      [] tool = "github_update_issue" -> "updateIssue"
      [] tool = "github_list_pull_requests" -> "listPullRequests"
      [] tool = "github_get_pull_request" -> "getPullRequest"
      [] tool = "github_create_pull_request" -> "createPullRequest"
      [] tool = "github_list_branches" -> "listBranches"
      [] tool = "github_get_file_content" -> "getFileContent"
      [] tool = "github_search_repos" -> "searchRepositories"
      [] tool = "github_search_code" -> "searchCode"
      [] tool = "github_list_commits" -> "listCommits"

Tools == {"github_list_repos", "github_get_repo", "github_create_repo", "github_list_issues",
          "github_get_issue", "github_create_issue", "github_update_issue",
          "github_list_pull_requests", "github_get_pull_request", "github_create_pull_request",
          "github_list_branches", "github_get_file_content", "github_search_repos",
          "github_search_code", "github_list_commits"}

\* new GitHubClient(): no configuration at all.
NoConfig == [token |-> None, baseURL |-> None, rateLimit |-> None]

\* throw new Error("GitHub token is required. ...")
ConfigurationError ==
    [kind |-> "error", name |-> "Error",
     message |-> "GitHub token is required. Set GITHUB_TOKEN environment variable.",
     value |-> None, text |-> ""]

\* A getClient() that constructs a client on every invocation.
NeedsClientAlways(held) == TRUE

\* getClient(): if (!_client) _client = new GitHubClient()
NeedsClient(held) == ~IsSome(held)

\* error instanceof Error
InstanceOfError(error) == error.name \in {"Error", "TypeError", "SyntaxError"}

\* An errorResult that leaves out the isError flag.
errorResultUnflagged(error) ==
    [content |-> "Error: " \o (IF InstanceOfError(error) THEN error.message
                               ELSE "An unknown error occurred"),
     isError |-> None]

\* errorResult(error)
errorResult(error) ==
    [content |-> "Error: " \o (IF InstanceOfError(error) THEN error.message
                               ELSE "An unknown error occurred"),
     isError |-> Some(TRUE)]

\* JSON.stringify(text, null, 2) of the body texts of the model: the text in double
\* quotes, its own double quotes escaped.
StringifyText(text) ==
    CASE text = "{\"message\":\"Not Found\"}" -> "\"{\\\"message\\\":\\\"Not Found\\\"}\""
      [] text = "{\"message\":\"\"}" -> "\"{\\\"message\\\":\\\"\\\"}\""
      [] text = "{\"message\":0}" -> "\"{\\\"message\\\":0}\""
      [] text = "{\"message\":7}" -> "\"{\\\"message\\\":7}\""
      [] text = "{\"id\":1}" -> "\"{\\\"id\\\":1}\""
      [] OTHER -> "\"" \o text \o "\""

\* JSON.stringify(value, null, 2) of the parsed values of the model.
StringifyValue(v) ==
    CASE v.t = "null" -> "null"
      [] v.t = "array" -> "[]"
      [] v.t = "object" /\ ~IsSome(v.message) -> "{\n  \"id\": 1\n}"
      [] v.t = "object" /\ IsSome(v.message) /\ Get(v.message).t = "number" ->
             "{\n  \"message\": " \o ToText(Get(v.message)) \o "\n}"
      [] OTHER -> "{\n  \"message\": \"" \o ToText(Get(v.message)) \o "\"\n}"

\* { content: [{ type: "text", text: JSON.stringify(result, null, 2) }] }
successResult(o) ==
    [content |-> IF o.name = "json" THEN StringifyValue(Get(o.value)) ELSE StringifyText(o.text),
     isError |-> None]

\* try { result = await getClient().operation(...); return {content} }
\* catch (error) { return errorResult(error) }
HandlerResult(o) == IF o.kind = "error" THEN errorResult(o) ELSE successResult(o)

(***************************************************************************)
(* The state machine.                                                      *)
(***************************************************************************)
NoHist == [seen |-> 0, wrote |-> 0, now |-> 0]

InitWith(envs) ==
    /\ env \in envs
    /\ client = None
    /\ lastRequestTime = 0
    /\ rateLimitInfo = None
    /\ clock = StartClock
    /\ pc = [c \in Calls |-> "idle"]
    /\ due = [c \in Calls |-> 0]
    /\ req = [c \in Calls |-> None]
    /\ resp = [c \in Calls |-> None]
    /\ outcome = [c \in Calls |-> None]
    /\ constructs = 0
    /\ config = None
    /\ threw = FALSE
    /\ started = 0
    /\ stamps = 0
    /\ hist = [c \in Calls |-> NoHist]
    /\ before = [c \in Calls |-> None]
    /\ log = <<>>
    /\ hasFailed = FALSE
    /\ result = [c \in Calls |-> None]

\* A continuation of `await this.rateLimitDelay()` is queued: it runs before any
\* timer, response or later job.
MicrotaskPending == \E c \in Calls : pc[c] = "fetch"

\* new GitHubClient(cfg), by the holder of the single client (getClient in tools.ts
\* constructs only while it has none).
Construct(cfg) ==
    /\ ~IsSome(client)
    /\ constructs < MaxConstructs
    /\ constructs' = constructs + 1
    /\ config' = Some(cfg)
    /\ IF ConstructorThrows(cfg, env)
       THEN /\ threw' = TRUE
            /\ UNCHANGED <<client, lastRequestTime, rateLimitInfo>>
       ELSE /\ threw' = FALSE
            /\ client' = Some(NewClient(cfg, env))
            /\ lastRequestTime' = 0
            /\ rateLimitInfo' = None
    /\ UNCHANGED <<env, clock, pc, due, req, resp, outcome, started, stamps, hist, before, log,
                   hasFailed, result>>

\* An operation that calls fetch() without going through the delay.
FirstStepSkipped(op) == IF op = "getIssue" THEN "fetch" ELSE "rateLimitDelay"

\* The first thing request() does for every operation: await this.rateLimitDelay().
FirstStep(op) == "rateLimitDelay"

\* request(method, path, body) for call c on the client cl, whose lastRequestTime is
\* `last`, up to its first suspension: inside rateLimitDelay() when a delay is due,
\* after it otherwise.
RequestOn(cl, last, c, rq) ==
    /\ req' = [req EXCEPT ![c] = Some(rq)]
    /\ IF FirstStep(rq.op) = "rateLimitDelay"
       THEN IF NeedsDelay(clock, last, cl.rateLimit)
            THEN /\ pc' = [pc EXCEPT ![c] = "sleeping"]
                 /\ due' = [due EXCEPT ![c] = TimerDue(clock, last, cl.rateLimit)]
                 /\ hist' = [hist EXCEPT ![c] = [seen |-> stamps, wrote |-> 0, now |-> clock]]
                 /\ lastRequestTime' = last
                 /\ UNCHANGED stamps
            ELSE /\ pc' = [pc EXCEPT ![c] = "fetch"]
                 /\ lastRequestTime' = clock
                 /\ stamps' = stamps + 1
                 /\ hist' = [hist EXCEPT ![c] = [seen |-> stamps, wrote |-> stamps + 1,
                                                 now |-> clock]]
                 /\ UNCHANGED due
       ELSE /\ pc' = [pc EXCEPT ![c] = "fetch"]
            /\ lastRequestTime' = last
            /\ UNCHANGED <<stamps, hist, due>>

\* request(method, path, body) for call c on the client there is.
Request(c, rq) == RequestOn(Get(client), lastRequestTime, c, rq)

\* The host calls an operation of the client, which builds one of `requests` and
\* hands it to request().  A serial host has no other call in progress.
StartCall(c, requests, serial) ==
    /\ IsSome(client)
    /\ started < MaxCalls
    /\ pc[c] = "idle"
    /\ \A d \in Calls : d < c => pc[d] # "idle"
    /\ serial => \A d \in Calls : pc[d] = "idle"
    /\ started' = started + 1
    /\ \E rq \in requests : Request(c, rq)
    /\ UNCHANGED <<env, client, rateLimitInfo, clock, resp, outcome, constructs, config,
                   threw, before, log, hasFailed, result>>

\* The timer callback of a call runs only once no other call is in progress.
TimerFireAfterOthers(c) ==
    /\ pc[c] = "sleeping"
    /\ clock >= due[c]
    /\ ~MicrotaskPending
    /\ \A d \in Calls : d # c => pc[d] \in {"idle", "done", "returned"}
    /\ pc' = [pc EXCEPT ![c] = "fetch"]
    /\ lastRequestTime' = clock
    /\ stamps' = stamps + 1
    /\ hist' = [hist EXCEPT ![c].wrote = stamps + 1]
    /\ UNCHANGED <<env, client, rateLimitInfo, clock, due, req, resp, outcome, constructs,
                   config, threw, started, before, log, hasFailed, result>>

\* The timer expires and the time read before the delay is stored.
TimerFireStoresReadTime(c) ==
    /\ pc[c] = "sleeping"
    /\ clock >= due[c]
    /\ ~MicrotaskPending
    /\ pc' = [pc EXCEPT ![c] = "fetch"]
    /\ lastRequestTime' = hist[c].now
    /\ stamps' = stamps + 1
    /\ hist' = [hist EXCEPT ![c].wrote = stamps + 1]
    /\ UNCHANGED <<env, client, rateLimitInfo, clock, due, req, resp, outcome, constructs,
                   config, threw, started, before, log, hasFailed, result>>

\* The timer of rateLimitDelay() expires: this.lastRequestTime = Date.now().
TimerFire(c) ==
    /\ pc[c] = "sleeping"
    /\ clock >= due[c]
    /\ ~MicrotaskPending
    /\ pc' = [pc EXCEPT ![c] = "fetch"]
    /\ lastRequestTime' = clock
    /\ stamps' = stamps + 1
    /\ hist' = [hist EXCEPT ![c].wrote = stamps + 1]
    /\ UNCHANGED <<env, client, rateLimitInfo, clock, due, req, resp, outcome, constructs,
                   config, threw, started, before, log, hasFailed, result>>

\* request() resumes after rateLimitDelay(): it builds the headers and calls fetch().
Dispatch(c) ==
    /\ pc[c] = "fetch"
    /\ pc' = [pc EXCEPT ![c] = "inflight"]
    /\ log' = Append(log, [at |-> clock, seen |-> hist[c].seen, wrote |-> hist[c].wrote])
    /\ UNCHANGED <<env, client, lastRequestTime, rateLimitInfo, clock, due, req, resp,
                   outcome, constructs, config, threw, started, stamps, hist, before,
                   hasFailed, result>>

\* fetch() resolves with one of `responses`: the quota headers are read, then the
\* body is awaited.
Respond(c, responses) ==
    /\ pc[c] = "inflight"
    /\ ~MicrotaskPending
    /\ \E r \in responses :
          /\ rateLimitInfo' = RecordQuota(rateLimitInfo, r)
          /\ resp' = [resp EXCEPT ![c] = Some(r)]
          /\ pc' = [pc EXCEPT ![c] = AfterHeaders(r)]
    /\ before' = [before EXCEPT ![c] = rateLimitInfo]
    /\ UNCHANGED <<env, client, lastRequestTime, clock, due, req, outcome, constructs,
                   config, threw, started, stamps, hist, log, hasFailed, result>>

\* A rejected fetch() is tried again.
FetchRejectRetry(c) ==
    /\ pc[c] = "inflight"
    /\ ~MicrotaskPending
    /\ pc' = [pc EXCEPT ![c] = "fetch"]
    /\ UNCHANGED <<env, client, lastRequestTime, rateLimitInfo, clock, due, req, resp, outcome,
                   constructs, config, threw, started, stamps, hist, before, log, hasFailed,
                   result>>

\* fetch() rejects: request() throws what fetch threw.
FetchReject(c) ==
    /\ pc[c] = "inflight"
    /\ ~MicrotaskPending
    /\ pc' = [pc EXCEPT ![c] = "done"]
    /\ outcome' = [outcome EXCEPT ![c] = Some(TransportError)]
    /\ hasFailed' = TRUE
    /\ UNCHANGED <<env, client, lastRequestTime, rateLimitInfo, clock, due, req, resp,
                   constructs, config, threw, started, stamps, hist, before, log, result>>

\* The body has arrived: request() returns the decoded value or throws.
ReadBody(c) ==
    /\ pc[c] \in {"readError", "readJson", "readText"}
    /\ ~MicrotaskPending
    /\ pc' = [pc EXCEPT ![c] = "done"]
    /\ outcome' = [outcome EXCEPT ![c] = Some(Decode(pc[c], Get(resp[c])))]
    /\ hasFailed' = (hasFailed \/ Decode(pc[c], Get(resp[c])).kind = "error")
    /\ UNCHANGED <<env, client, lastRequestTime, rateLimitInfo, clock, due, req, resp,
                   constructs, config, threw, started, stamps, hist, before, log, result>>

\* The host takes the outcome of the call it awaited; the request, the response and
\* the outcome are dropped.
Settle(c) ==
    /\ pc[c] = "done"
    /\ ~MicrotaskPending
    /\ pc' = [pc EXCEPT ![c] = "idle"]
    /\ due' = [due EXCEPT ![c] = 0]
    /\ req' = [req EXCEPT ![c] = None]
    /\ resp' = [resp EXCEPT ![c] = None]
    /\ outcome' = [outcome EXCEPT ![c] = None]
    /\ hist' = [hist EXCEPT ![c] = NoHist]
    /\ before' = [before EXCEPT ![c] = None]
    /\ UNCHANGED <<env, client, lastRequestTime, rateLimitInfo, clock, constructs, config,
                   threw, started, stamps, log, hasFailed, result>>

\* A millisecond passes.
Tick ==
    /\ ~MicrotaskPending
    /\ clock < StartClock + MaxElapsed
    /\ clock' = clock + 1
    /\ UNCHANGED <<env, client, lastRequestTime, rateLimitInfo, pc, due, req, resp, outcome,
                   constructs, config, threw, started, stamps, hist, before, log, hasFailed,
                   result>>

\* The event loop is idle until the timer of call c is due.
AdvanceToTimer(c) ==
    /\ ~MicrotaskPending
    /\ pc[c] = "sleeping"
    /\ due[c] > clock
    /\ clock' = due[c]
    /\ UNCHANGED <<env, client, lastRequestTime, rateLimitInfo, pc, due, req, resp, outcome,
                   constructs, config, threw, started, stamps, hist, before, log, hasFailed,
                   result>>

(***************************************************************************)
(* The inputs the host and the network choose from.                        *)
(***************************************************************************)
Envs == {None, Some(""), Some("ghp_env")}
ConfigTokens == {None, Some(""), Some("ghp_config")}
ConfigBaseURLs == {None, Some("https://ghe.example/api/v3")}
ConfigRates == {None, Some(0), Some(0 - 250), Some(300), Some(500)}

Configs(tokens, urls, rates) ==
    {[token |-> t, baseURL |-> u, rateLimit |-> r] : t \in tokens, u \in urls, r \in rates}

AllConfigs == Configs(ConfigTokens, ConfigBaseURLs, ConfigRates)
PacedConfigs == Configs({None}, {None}, {None, Some(0 - 250), Some(300), Some(500)})
OneConfig == Configs({Some("ghp_config")}, {None}, {Some(300)})

\* A value the schema of the operation accepts for an optional parameter.
Sample(op, k) ==
    CASE k = "type" -> "owner"
      [] k = "sort" -> IF op = "searchCode" THEN "indexed" ELSE "updated"
      [] k = "state" -> "open"
      [] k = "labels" -> "bug,help wanted"
      [] k = "head" -> "octocat:dev"
      [] k = "order" -> "desc"
      [] k = "path" -> "src"
      [] k = "author" -> "octocat"
      [] OTHER -> "main"

\* z.number() accepts 0; z.string() accepts ""; a z.enum accepts only its members.
ParamChoices(op, k) ==
    CASE k = "page" -> {None, Some(Num(0)), Some(Num(2))}
      [] k = "per_page" -> {None, Some(Num(30))}
      [] k \in {"labels", "ref", "sha"} -> {None, Some(Str("")), Some(Str(Sample(op, k)))}
      [] OTHER -> {None, Some(Str(Sample(op, k)))}

RECURSIVE ParamSets(_, _)
ParamSets(op, keys) ==
    IF keys = <<>> THEN {[k \in {} |-> None]}
    ELSE {(Head(keys) :> v) @@ f : v \in ParamChoices(op, Head(keys)), f \in ParamSets(op, Tail(keys))}

NoParams(op) == [k \in {QueryKeys(op)[i] : i \in 1..Len(QueryKeys(op))} |-> None]

\* What the operations hand to request(), for every choice of parameters and for none.
Requests(ops) == UNION {{Descriptor(op, p) : p \in ParamSets(op, QueryKeys(op))} : op \in ops}
BareRequests(ops) == {Descriptor(op, NoParams(op)) : op \in ops}

\* Header values as response.headers.get() returns them: null, or a text.
Response(status, limit, remaining, reset, contentType, body) ==
    [status |-> status, limit |-> limit, remaining |-> remaining, reset |-> reset,
     contentType |-> contentType, body |-> body]

NoQuota(status, contentType, body) == Response(status, None, None, None, contentType, body)

Bodies == {"", "hello", "Server Error", "null", "[]", "{\"id\":1}", "{\"message\":\"Not Found\"}",
           "{\"message\":\"\"}", "{\"message\":0}", "{\"message\":7}"}
ContentTypes == {None, Some(""), Some("text/plain"), Some("application/json"),
                 Some("application/json; charset=utf-8")}
Statuses == {200, 404, 500}

\* Responses that differ in status, content type and body.
BodyResponses == {NoQuota(st, ct, b) : st \in Statuses, ct \in ContentTypes, b \in Bodies}

\* Responses that differ in their quota headers.
HeaderResponses ==
    {Response(st, l, m, t, Some("application/json"), "{\"id\":1}") :
        st \in {200, 404},
        l \in {None, Some(<<"5", "0", "0", "0">>), Some(<<"x">>)},
        m \in {None, Some(<<>>), Some(<<"0">>), Some(<<"4", "9">>), Some(<<"4", "x">>)},
        t \in {None, Some(<<"6", "0">>)}}

AllResponses == BodyResponses \cup HeaderResponses

FewResponses ==
    {Response(200, Some(<<"6", "0">>), Some(<<"5", "9">>), Some(<<"9", "0">>),
              Some("application/json"), "{\"id\":1}"),
     NoQuota(404, Some("application/json"), "{\"message\":\"Not Found\"}")}

\* Responses of every kind a handler turns into a result.
ToolResponses ==
    {Response(200, Some(<<"6", "0">>), Some(<<"5", "9">>), Some(<<"9", "0">>),
              Some("application/json"), "{\"id\":1}"),
     NoQuota(200, None, "hello"),
     NoQuota(200, Some("application/json"), "hello"),
     NoQuota(404, Some("application/json"), "{\"message\":\"Not Found\"}"),
     NoQuota(500, Some("text/plain"), "Server Error")}

OneRequest == BareRequests({"getRepo"})
AllRequests == Requests(Ops)

(***************************************************************************)
(* The tool handlers as steps of the server.                               *)
(***************************************************************************)
\* The server invokes the handler of a tool: getClient() constructs the client when
\* there is none, and the handler calls the operation of the tool on it.  When the
\* constructor throws, the handler catches it and returns at once.
Invoke(c, tools, serial) ==
    /\ started < MaxCalls
    /\ pc[c] = "idle"
    /\ \A d \in Calls : d < c => pc[d] # "idle"
    /\ serial => \A d \in Calls : pc[d] = "idle"
    /\ NeedsClient(client) => constructs < MaxConstructs
    /\ started' = started + 1
    /\ \E tool \in tools :
          IF ~NeedsClient(client)
          THEN /\ \E rq \in BareRequests({ToolOp(tool)}) : Request(c, rq)
               /\ UNCHANGED <<client, rateLimitInfo, constructs, config, threw, outcome, result>>
          ELSE /\ constructs' = constructs + 1
               /\ config' = Some(NoConfig)
               /\ IF ConstructorThrows(NoConfig, env)
                  THEN /\ threw' = TRUE
                       /\ pc' = [pc EXCEPT ![c] = "returned"]
                       /\ outcome' = [outcome EXCEPT ![c] = Some(ConfigurationError)]
                       /\ result' = [result EXCEPT ![c] = Some(HandlerResult(ConfigurationError))]
                       /\ UNCHANGED <<client, lastRequestTime, rateLimitInfo, due, req, stamps, hist>>
                  ELSE /\ threw' = FALSE
                       /\ client' = Some(NewClient(NoConfig, env))
                       /\ rateLimitInfo' = None
                       /\ \E rq \in BareRequests({ToolOp(tool)}) :
                              RequestOn(NewClient(NoConfig, env), 0, c, rq)
                       /\ UNCHANGED <<outcome, result>>
    /\ UNCHANGED <<env, clock, resp, before, log, hasFailed>>

\* The operation the handler awaited has returned or thrown: the handler returns
\* its result.
HandlerReturn(c) ==
    /\ pc[c] = "done"
    /\ pc' = [pc EXCEPT ![c] = "returned"]
    /\ result' = [result EXCEPT ![c] = Some(HandlerResult(Get(outcome[c])))]
    /\ UNCHANGED <<env, client, lastRequestTime, rateLimitInfo, clock, due, req, resp, outcome,
                   constructs, config, threw, started, stamps, hist, before, log, hasFailed>>

\* The server has sent the result of the handler to its peer.
Release(c) ==
    /\ pc[c] = "returned"
    /\ ~MicrotaskPending
    /\ pc' = [pc EXCEPT ![c] = "idle"]
    /\ due' = [due EXCEPT ![c] = 0]
    /\ req' = [req EXCEPT ![c] = None]
    /\ resp' = [resp EXCEPT ![c] = None]
    /\ outcome' = [outcome EXCEPT ![c] = None]
    /\ result' = [result EXCEPT ![c] = None]
    /\ hist' = [hist EXCEPT ![c] = NoHist]
    /\ before' = [before EXCEPT ![c] = None]
    /\ UNCHANGED <<env, client, lastRequestTime, rateLimitInfo, clock, constructs, config,
                   threw, started, stamps, log, hasFailed>>

(***************************************************************************)
(* The specifications.                                                     *)
(***************************************************************************)
Step(configs, requests, responses, serial) ==
    \/ \E cfg \in configs : Construct(cfg)
    \/ \E c \in Calls : StartCall(c, requests, serial)
    \/ \E c \in Calls : TimerFire(c)
    \/ \E c \in Calls : Dispatch(c)
    \/ \E c \in Calls : Respond(c, responses)
    \/ \E c \in Calls : FetchReject(c)
    \/ \E c \in Calls : ReadBody(c)
    \/ \E c \in Calls : Settle(c)
    \/ \E c \in Calls : AdvanceToTimer(c)
    \/ Tick

\* Any host: calls may overlap on the one client.
Init == InitWith({Some("ghp_env")})
Next == Step(PacedConfigs, OneRequest, FewResponses, FALSE)
Spec == Init /\ [][Next]_vars

\* A host that awaits each call before it makes the next, with every configuration.
SerialInit == InitWith(Envs)
SerialNext == Step(AllConfigs, OneRequest, FewResponses, TRUE)
SerialSpec == SerialInit /\ [][SerialNext]_vars

\* Every operation with every combination of its optional parameters.
OpsInit == InitWith({Some("ghp_env")})
OpsNext == Step(OneConfig, AllRequests, FewResponses, TRUE)
OpsSpec == OpsInit /\ [][OpsNext]_vars

\* Every response.
DecodeInit == InitWith({Some("ghp_env")})
DecodeNext == Step(OneConfig, OneRequest, AllResponses, TRUE)
DecodeSpec == DecodeInit /\ [][DecodeNext]_vars

\* The MCP server over registerTools: every call is the invocation of a tool.
ToolStep(tools, responses, serial) ==
    \/ \E c \in Calls : Invoke(c, tools, serial)
    \/ \E c \in Calls : TimerFire(c)
    \/ \E c \in Calls : Dispatch(c)
    \/ \E c \in Calls : Respond(c, responses)
    \/ \E c \in Calls : FetchReject(c)
    \/ \E c \in Calls : ReadBody(c)
    \/ \E c \in Calls : HandlerReturn(c)
    \/ \E c \in Calls : Release(c)
    \/ \E c \in Calls : AdvanceToTimer(c)
    \/ Tick

ToolInit == InitWith(Envs)
ToolNext == ToolStep(Tools, ToolResponses, TRUE)
ToolSpec == ToolInit /\ [][ToolNext]_vars

\* Overlapping calls, with the scheduling the event loop gives: a queued
\* continuation always runs.
LiveConfigs == Configs({None}, {None}, {None})
LiveInit == InitWith({Some("ghp_env")})
LiveNext == Step(LiveConfigs, OneRequest, FewResponses, FALSE)
LiveSpec == LiveInit /\ [][LiveNext]_vars /\ \A c \in Calls : WF_vars(Dispatch(c))

\* The MCP server with overlapping invocations of two tools.
SharedInit == InitWith(Envs)
SharedNext == ToolStep({"github_get_repo", "github_create_issue"}, FewResponses, FALSE)
SharedSpec == SharedInit /\ [][SharedNext]_vars

(***************************************************************************)
(* The claims.                                                             *)
(***************************************************************************)
Rate == Get(client).rateLimit

\* Dispatches i and i+1 are at least 1000/rate ms apart.
PacedAt(i) == (log[i + 1].at - log[i].at) * Rate >= MsPerSecond

StaleRead(i) == log[i].seen < log[i].wrote - 1

\* C2: under overlapping calls the pacing guarantee fails, and only through the race
\* on lastRequestTime: whenever two consecutive dispatches are less than 1000/rate ms
\* apart, the later one was made by a call that read a stale lastRequestTime.
C2_PacingBrokenOnlyByRace ==
    (IsSome(client) /\ Rate > 0) =>
        \A i \in 1..(Len(log) - 1) : ~PacedAt(i) => StaleRead(i + 1)

\* C2 witness: two calls read the same lastRequestTime at the same instant, wait for
\* the same timer expiry and are dispatched less than 1000/rate ms apart.
C2_Witness ==
    /\ IsSome(client) /\ Rate > 0
    /\ pc[1] = "inflight" /\ pc[2] = "inflight"
    /\ hist[1].seen = hist[2].seen /\ hist[1].now = hist[2].now
    /\ due[1] = due[2] /\ due[1] > hist[1].now
    /\ Len(log) >= 2
    /\ ~PacedAt(Len(log) - 1)

\* A header that is present with a decimal integer as its value.
IsIntegerText(h) == IsSome(h) /\ Get(h) # <<>> /\ \A i \in 1..Len(Get(h)) : IsDigit(Get(h)[i])

\* The integer a decimal text denotes.
RECURSIVE DecimalValue(_)
DecimalValue(t) ==
    IF t = <<>> THEN 0
    ELSE DecimalValue(SubSeq(t, 1, Len(t) - 1)) * 10 + DigitValue(t[Len(t)])

AllQuotaInteger(r) == IsIntegerText(r.limit) /\ IsIntegerText(r.remaining) /\ IsIntegerText(r.reset)
AllQuotaPresent(r) == IsSome(r.limit) /\ IsSome(r.remaining) /\ IsSome(r.reset)

\* getRateLimitInfo()
getRateLimitInfo == rateLimitInfo

\* C3: once a call has received a response, getRateLimitInfo() returns the three
\* header values when all three are present as integers, and the snapshot from
\* before the response when at least one of the three is absent.
C3_QuotaSnapshot ==
    \A c \in Calls : IsSome(resp[c]) =>
        LET r == Get(resp[c])
        IN /\ AllQuotaInteger(r) =>
                getRateLimitInfo = Some([limit |-> JsNumber(DecimalValue(Get(r.limit))),
                                         remaining |-> JsNumber(DecimalValue(Get(r.remaining))),
                                         reset |-> JsNumber(DecimalValue(Get(r.reset)))])
           /\ ~AllQuotaPresent(r) => getRateLimitInfo = before[c]

\* C3 witness: a response without all three headers arrived after an earlier
\* response had set the snapshot from its headers, and the snapshot is still that.
C3_Witness ==
    \E c \in Calls :
        /\ IsSome(resp[c]) /\ ~AllQuotaPresent(Get(resp[c]))
        /\ IsSome(before[c])
        /\ getRateLimitInfo = Some([limit |-> JsNumber(5000), remaining |-> JsNumber(0),
                                    reset |-> JsNumber(60)])

\* C4 (the claim as stated): a response that carries all three headers, one of
\* them not an integer, leaves the snapshot as it was.
C4_MalformedKeepsSnapshot ==
    \A c \in Calls :
        (IsSome(resp[c]) /\ AllQuotaPresent(Get(resp[c])) /\ ~AllQuotaInteger(Get(resp[c])))
            => getRateLimitInfo = before[c]

\* C5 (the claim as stated): no client exists whose rate ceiling is zero or
\* negative, and a configuration asking for one is refused.
C5_RateCeilingPositive ==
    /\ IsSome(client) => Rate > 0
    /\ (IsSome(config) /\ IsSome(Get(config).rateLimit) /\ Get(Get(config).rateLimit) <= 0) => threw

\* C6: when neither the configuration nor GITHUB_TOKEN holds a non-empty token the
\* constructor throws and there is no client; and without a client nothing is
\* throttled or dispatched.
C6_NoTokenNoClient ==
    /\ (IsSome(config) /\ ~TruthyString(Get(config).token) /\ ~TruthyString(env))
           => (threw /\ ~IsSome(client))
    /\ IsSome(client) => Get(client).token # ""
    /\ ~IsSome(client) =>
           (log = <<>> /\ stamps = 0 /\ started = 0 /\ \A c \in Calls : pc[c] = "idle")

\* C6 witness: a constructor call with an empty token in the configuration and an
\* empty GITHUB_TOKEN has thrown.
C6_Witness ==
    /\ config # None /\ Get(config).token = Some("") /\ env = Some("")
    /\ threw /\ ~IsSome(client) /\ constructs = MaxConstructs

\* The message the claim extracts: the message field whenever the body is JSON with
\* a message field.
ClaimedMessage(body) ==
    LET j == JSONParse(body)
    IN IF IsSome(j) /\ IsSome(Get(j).message) THEN ToText(Get(Get(j).message)) ELSE body

\* The message the code extracts: the message field when it is truthy.
TruthyMessage(body) ==
    LET j == JSONParse(body)
    IN IF IsSome(j) /\ Truthy(Get(j).message) THEN ToText(Get(Get(j).message)) ELSE body

Failed(c) == pc[c] = "done" /\ IsSome(resp[c]) /\ ~Ok(Get(resp[c]))

\* C7 (the claim as stated): a non-success response raises a failure whose message
\* holds the status and the body's message field whenever the body is JSON with a
\* message field, the raw body otherwise.
C7_MessageFieldWhenPresent ==
    \A c \in Calls : Failed(c) =>
        /\ Get(outcome[c]).kind = "error"
        /\ Get(outcome[c]).message =
               "GitHub API error (" \o ToString(Get(resp[c]).status) \o "): "
                   \o ClaimedMessage(Get(resp[c]).body)

\* C7 (amended): a non-success response raises a failure whose message holds the
\* status and the body's message field when the body is JSON with a message field
\* that is truthy (not "", not 0), the raw body otherwise; the same for every status.
C7_MessageFieldWhenTruthy ==
    \A c \in Calls : Failed(c) =>
        /\ Get(outcome[c]).kind = "error"
        /\ Get(outcome[c]).message =
               "GitHub API error (" \o ToString(Get(resp[c]).status) \o "): "
                   \o TruthyMessage(Get(resp[c]).body)

\* C7 witness: a 404 with body {"message":"Not Found"} has failed with both in its
\* message.
C7_Witness ==
    \E c \in Calls :
        /\ Failed(c)
        /\ Get(resp[c]).status = 404
        /\ Get(resp[c]).body = "{\"message\":\"Not Found\"}"
        /\ Get(outcome[c]).message = "GitHub API error (404): Not Found"

\* A content type that names JSON.
NamesJson(ct) == ct \in {Some("application/json"), Some("application/json; charset=utf-8")}

\* C8: a finished call with a success response returns the parsed body when the
\* content type names JSON (a body that does not parse makes the call throw) and the
\* raw body text otherwise, also without a content type; a call with a non-success
\* response returns no value.
C8_DecodeByContentType ==
    \A c \in Calls : (pc[c] = "done" /\ IsSome(resp[c])) =>
        LET r == Get(resp[c])
            o == Get(outcome[c])
        IN /\ (Ok(r) /\ NamesJson(r.contentType) /\ IsSome(JSONParse(r.body)))
                 => (o.kind = "value" /\ o.name = "json" /\ o.value = JSONParse(r.body))
           /\ (Ok(r) /\ NamesJson(r.contentType) /\ ~IsSome(JSONParse(r.body)))
                 => o.kind = "error"
           /\ (Ok(r) /\ ~NamesJson(r.contentType))
                 => (o.kind = "value" /\ o.name = "text" /\ o.text = r.body)
           /\ ~Ok(r) => o.kind = "error"

\* C8 witness: a 200 with content type application/json; charset=utf-8 and body
\* {"id":1} has returned the parsed object.
C8_Witness ==
    \E c \in Calls :
        /\ pc[c] = "done" /\ IsSome(resp[c])
        /\ Get(resp[c]).status = 200
        /\ Get(resp[c]).contentType = Some("application/json; charset=utf-8")
        /\ Get(resp[c]).body = "{\"id\":1}"
        /\ Get(outcome[c]).value = Some([t |-> "object", message |-> None])

\* C9: every dispatch is made by a call whose own rateLimitDelay() has completed (it
\* has written lastRequestTime, once per dispatch), and every call made has either
\* dispatched once or is still in or just past its delay.
C9_ThrottleBeforeDispatch ==
    /\ \A i \in 1..Len(log) : log[i].wrote > 0
    /\ \A i, j \in 1..Len(log) : i # j => log[i].wrote # log[j].wrote
    /\ \A c \in Calls : pc[c] \in {"inflight", "readError", "readJson", "readText", "done"}
           => (hist[c].wrote > 0 /\ \E i \in 1..Len(log) : log[i].wrote = hist[c].wrote)
    /\ \A c \in Calls : pc[c] \in {"sleeping", "fetch"}
           => ~\E i \in 1..Len(log) : log[i].wrote = hist[c].wrote
    /\ Len(log) + Cardinality({c \in Calls : pc[c] \in {"sleeping", "fetch"}}) = started

\* C9 witness: after two earlier calls, a createIssue call that had to wait has been
\* dispatched.
C9_Witness ==
    \E c \in Calls :
        /\ pc[c] = "inflight" /\ Get(req[c]).op = "createIssue"
        /\ Len(log) = 3 /\ log[3].wrote = hist[c].wrote
        /\ due[c] > hist[c].now

\* The path the claim describes: a key for every optional parameter that is present.
RECURSIVE PresentPairs(_, _)
PresentPairs(keys, params) ==
    IF keys = <<>> THEN <<>>
    ELSE (IF IsSome(params[Head(keys)])
          THEN << <<Head(keys), ToText(Get(params[Head(keys)]))>> >> ELSE <<>>)
         \o PresentPairs(Tail(keys), params)

ClaimedPath(op, params) ==
    LET pairs == (IF op \in SearchOps THEN << <<"q", Query>> >> ELSE <<>>)
                     \o PresentPairs(QueryKeys(op), params)
    IN IF pairs = <<>> THEN BasePath(op) ELSE BasePath(op) \o "?" \o Serialize(pairs)

\* C10 (the claim as stated): the query string of a list or search request has a key
\* for exactly the optional parameters present in the input, each with its value.
C10_QueryHasPresentKeys ==
    \A c \in Calls : IsSome(req[c]) =>
        Get(req[c]).path = ClaimedPath(Get(req[c]).op, Get(req[c]).params)

\* C11: every tool invocation that has finished has returned a result and raised
\* nothing: when the construction of the client or the operation failed
\* (configuration, transport or API failure, or a body that does not parse) the
\* result has isError = true and its text carries the message of the failure; when
\* the operation succeeded the result has no isError flag.
C11_HandlerAlwaysReturns ==
    \A c \in Calls :
        /\ IsSome(result[c]) <=> pc[c] = "returned"
        /\ pc[c] = "returned" =>
               LET o == Get(outcome[c])
                   r == Get(result[c])
               IN /\ o.kind = "error" => (r.isError = Some(TRUE) /\ r.content = "Error: " \o o.message)
                  /\ o.kind = "value" => r.isError = None
                  /\ o \in {ConfigurationError, TransportError} => r.isError = Some(TRUE)
                  /\ (IsSome(resp[c]) /\ ~Ok(Get(resp[c]))) => r.isError = Some(TRUE)

\* C11 witness: the handler of github_create_issue, whose call got a 404, has
\* returned an error result with the message of the API failure.
C11_Witness ==
    \E c \in Calls :
        /\ pc[c] = "returned"
        /\ IsSome(req[c]) /\ Get(req[c]).op = "createIssue"
        /\ IsSome(resp[c]) /\ Get(resp[c]).status = 404
        /\ Get(result[c]) = [content |-> "Error: GitHub API error (404): Not Found",
                             isError |-> Some(TRUE)]

\* C12: a response with a non-success status and all three quota headers as
\* integers overwrites the snapshot before the failure is raised: from the arrival
\* of the response on, and after the call has failed, getRateLimitInfo() returns the
\* values of the failed response.
C12_FailureUpdatesQuota ==
    \A c \in Calls :
        (IsSome(resp[c]) /\ ~Ok(Get(resp[c])) /\ AllQuotaInteger(Get(resp[c]))) =>
            LET r == Get(resp[c])
            IN /\ pc[c] \in {"readError", "done"}
               /\ pc[c] = "readError" => ~IsSome(outcome[c])
               /\ pc[c] = "done" => Get(outcome[c]) = ApiError(r)
               /\ getRateLimitInfo = Some([limit |-> JsNumber(DecimalValue(Get(r.limit))),
                                           remaining |-> JsNumber(DecimalValue(Get(r.remaining))),
                                           reset |-> JsNumber(DecimalValue(Get(r.reset)))])

\* C12 witness: a call has failed with a 404 that carried 5000 / 49 / 60, after an
\* earlier response had set another snapshot, and the snapshot is that of the 404.
C12_Witness ==
    \E c \in Calls :
        /\ pc[c] = "done" /\ Get(outcome[c]).kind = "error"
        /\ IsSome(resp[c]) /\ Get(resp[c]).status = 404
        /\ IsSome(before[c]) /\ Get(before[c]).remaining = JsNumber(0)
        /\ getRateLimitInfo = Some([limit |-> JsNumber(5000), remaining |-> JsNumber(49),
                                    reset |-> JsNumber(60)])

\* C13: a failed call leaves the client as it was and is not retried.  The token,
\* the base URL and the rate ceiling are those the constructor set; every call made
\* has dispatched exactly once or is still in or just past its delay; and every
\* call, those made after failed calls included, waits for the timer that the last
\* dispatch time asks for, is dispatched at least 1000/rate ms after the dispatch
\* before it, and returns or throws what its own response decodes to.
C13_UsableAfterFailure ==
    /\ IsSome(client) => client = Some(NewClient(Get(config), env))
    /\ Len(log) + Cardinality({c \in Calls : pc[c] \in {"sleeping", "fetch"}}) = started
    /\ hasFailed => started > 0
    /\ (IsSome(client) /\ Rate > 0) => \A i \in 1..(Len(log) - 1) : PacedAt(i)
    /\ \A c \in Calls :
          /\ pc[c] = "sleeping" =>
                 /\ NeedsDelay(hist[c].now, lastRequestTime, Rate)
                 /\ due[c] = TimerDue(hist[c].now, lastRequestTime, Rate)
          /\ pc[c] \in {"fetch", "inflight", "readError", "readJson", "readText", "done"}
                 => hist[c].wrote = hist[c].seen + 1
          /\ (pc[c] = "done" /\ IsSome(resp[c])) =>
                 Get(outcome[c]) = Decode(AfterHeaders(Get(resp[c])), Get(resp[c]))
          /\ (pc[c] = "done" /\ ~IsSome(resp[c])) => Get(outcome[c]) = TransportError

\* C13 witness: after a call on the client has failed, the third call (made once
\* the calls before it were over) has waited out its delay, was dispatched and has
\* returned the parsed body of its response.
C13_Witness ==
    \E c \in Calls :
        /\ pc[c] = "done" /\ hasFailed
        /\ due[c] > hist[c].now
        /\ Len(log) = 3
        /\ Get(outcome[c]).kind = "value"

\* C14: lastRequestTime never decreases: whatever the interleaving of the calls on
\* the client, no step stores a value smaller than the one stored before (the
\* clock of the model never runs backwards).
C14_LastRequestTimeMonotone == [][lastRequestTime' >= lastRequestTime /\ clock' >= clock]_vars

\* C14 witness: two calls in progress at once have both written lastRequestTime,
\* the later write after a delay.
C14_Witness ==
    /\ pc[1] \in {"fetch", "inflight"} /\ pc[2] \in {"fetch", "inflight"}
    /\ hist[1].wrote > 0 /\ hist[2].wrote > hist[1].wrote
    /\ due[2] > hist[2].now
    /\ lastRequestTime = due[2]
    /\ stamps >= 3

\* What call c is promised: time reaches the expiry of its timer, the timer
\* fires, the transport responds or fails, and the body arrives.
TimerAndTransportServe(c) ==
    /\ WF_vars(AdvanceToTimer(c))
    /\ WF_vars(TimerFire(c))
    /\ WF_vars(Respond(c, FewResponses) \/ FetchReject(c))
    /\ WF_vars(ReadBody(c))

InProgress(c) == pc[c] \in {"sleeping", "fetch", "inflight", "readError", "readJson", "readText"}

\* C15: a call in progress finishes, returning or throwing, whenever its own timer
\* fires and the transport serves its own request, whatever becomes of the calls
\* that overlap it: nothing is assumed about their timers and responses.
C15_EveryCallFinishes ==
    \A c \in Calls : TimerAndTransportServe(c) => (InProgress(c) ~> pc[c] = "done")

\* C15 witness: a call has finished while a call that was started before it, and
\* overlaps it, is still waiting for its timer.
C15_Witness ==
    /\ pc[2] = "done" /\ IsSome(outcome[2])
    /\ pc[1] = "sleeping"
    /\ hist[1].now <= hist[2].now

\* C16: within one registration the client is constructed by an invocation of a
\* tool and never before; an invocation that finds no client constructs one, and
\* stores it unless the constructor throws; once a client is stored no step
\* constructs another or replaces it, and an invocation starts its call on the
\* stored client's last-dispatch time and leaves its quota snapshot alone.
C16_LazySingleClient ==
    [][/\ constructs' > constructs => (started' = started + 1 /\ constructs' = constructs + 1)
       /\ (started = 0 /\ started' = 0) => (constructs' = 0 /\ ~IsSome(client'))
       /\ (~IsSome(client) /\ started' > started) =>
              /\ constructs' = constructs + 1
              /\ IF TruthyString(env) THEN IsSome(client') /\ ~threw'
                                      ELSE ~IsSome(client') /\ threw'
       /\ IsSome(client) =>
              /\ client' = client
              /\ constructs' = constructs
              /\ started' > started =>
                     /\ rateLimitInfo' = rateLimitInfo
                     /\ lastRequestTime' \in {lastRequestTime, clock}
                     /\ \E c \in Calls : pc[c] = "idle" /\ hist'[c].seen = stamps
      ]_vars

\* C16 witness: the client was constructed once, by the first of three invocations;
\* two invocations overlap on it, the later one delayed by the dispatch of the
\* earlier, with the quota snapshot of the first response.
C16_Witness ==
    /\ IsSome(client) /\ constructs = 1 /\ started = 3
    /\ pc[1] = "inflight" /\ pc[2] = "sleeping"
    /\ hist[2].seen = hist[1].wrote
    /\ IsSome(rateLimitInfo)

====
